---- MODULE Spec2Model ----
(***************************************************************************)
(* Model of src/app.py (CRM-MIMOVIL): the permanence date resolver         *)
(* (parse_yyyy_mm_dd, add_months, compute_permanence_end), the readers of  *)
(* the stored end date (get_end_date_from_client_row, calendar_view,       *)
(* api_permanencias) and the request handlers that write the store.        *)
(*                                                                         *)
(* Texts are sequences of character codes.  SQL NULL / Python None for a   *)
(* text is the value NULL, which is no text.  An optional date or integer  *)
(* is <<>> (None) or a one-element sequence holding the value.  A date is  *)
(* <<year, month, day>>.                                                   *)
(***************************************************************************)
EXTENDS Integers, Sequences, FiniteSets, TLC

VARIABLES
    r_pc,        \* resolver harness: "call", "returned", "fedback"
    r_start,     \* start_str handed to compute_permanence_end
    r_months,    \* months_str
    r_end,       \* end_str
    r_out,       \* outcome of compute_permanence_end(r_start, r_months, r_end)
    r_out2,      \* outcome of the call that feeds r_out's end back as end_str
    phase,           \* "boot" before init_db has run, then "serving"
    clients,         \* table clients: id -> row of the permanence columns
    next_client_id,  \* AUTOINCREMENT counter of clients
    repairs,         \* table repairs: set of [id, client_id]
    next_repair_id,
    sales,           \* table sales: set of [id, client_id]
    next_sale_id,
    lines,           \* table mobile_lines: sequence of rows in id order
    next_line_id,
    resp             \* what the last read request computed

rvars == <<r_pc, r_start, r_months, r_end, r_out, r_out2>>
dbvars == <<clients, next_client_id, repairs, next_repair_id, sales, next_sale_id,
            lines, next_line_id>>
svars == <<phase, clients, next_client_id, repairs, next_repair_id, sales,
           next_sale_id, lines, next_line_id>>
vars == <<r_pc, r_start, r_months, r_end, r_out, r_out2, phase, clients,
          next_client_id, repairs, next_repair_id, sales, next_sale_id, lines,
          next_line_id, resp>>

-----------------------------------------------------------------------------
(* Characters and texts *)

Ord(c) ==
    CASE c = " " -> 32 [] c = "+" -> 43 [] c = "-" -> 45 [] c = "/" -> 47
      [] c = "0" -> 48 [] c = "1" -> 49 [] c = "2" -> 50 [] c = "3" -> 51
      [] c = "4" -> 52 [] c = "5" -> 53 [] c = "6" -> 54 [] c = "7" -> 55
      [] c = "8" -> 56 [] c = "9" -> 57 [] c = "a" -> 97 [] c = "b" -> 98
      [] c = "c" -> 99 [] c = "x" -> 120

RECURSIVE Txt(_)
Txt(t) == IF t = <<>> THEN <<>> ELSE <<Ord(Head(t))>> \o Txt(Tail(t))

NULL == <<-1>>

IsSpace(c) == c = Ord(" ")
IsDigit(c) == c >= Ord("0") /\ c <= Ord("9")
DigitVal(c) == c - Ord("0")
DigitChr(n) == Ord("0") + n

\* Python truthiness of an optional text: None and "" are falsy
Falsy(s) == s = NULL \/ s = <<>>

\* a or b
PyOr(a, b) == IF Falsy(a) THEN b ELSE a

RECURSIVE LStrip(_)
LStrip(s) == IF s # <<>> /\ IsSpace(Head(s)) THEN LStrip(Tail(s)) ELSE s

RECURSIVE RStrip(_)
RStrip(s) ==
    IF s # <<>> /\ IsSpace(s[Len(s)]) THEN RStrip(SubSeq(s, 1, Len(s) - 1)) ELSE s

\* (s or "").strip()
Strip(s) == RStrip(LStrip(PyOr(s, <<>>)))

AllDigits(s) == \A i \in 1..Len(s) : IsDigit(s[i])

RECURSIVE DigitsVal(_)
DigitsVal(s) ==
    IF s = <<>> THEN 0 ELSE DigitsVal(SubSeq(s, 1, Len(s) - 1)) * 10 + DigitVal(s[Len(s)])

\* the fields of s between occurrences of sep
RECURSIVE Split(_, _)
Split(s, sep) ==
    IF \A i \in 1..Len(s) : s[i] # sep THEN <<s>>
    ELSE LET k == CHOOSE i \in 1..Len(s) : s[i] = sep /\ \A j \in 1..(i-1) : s[j] # sep
         IN  <<SubSeq(s, 1, k - 1)>> \o Split(SubSeq(s, k + 1, Len(s)), sep)

-----------------------------------------------------------------------------
(* datetime.date *)

MINYEAR == 1
MAXYEAR == 9999

IsLeap(y) == y % 4 = 0 /\ (y % 100 # 0 \/ y % 400 = 0)

DaysInMonth(y, m) ==
    IF m = 2 THEN (IF IsLeap(y) THEN 29 ELSE 28)
    ELSE IF m \in {4, 6, 9, 11} THEN 30 ELSE 31

\* date(y, m, d) returns; otherwise it raises ValueError
ValidDate(y, m, d) ==
    /\ y >= MINYEAR /\ y <= MAXYEAR
    /\ m >= 1 /\ m <= 12
    /\ d >= 1 /\ d <= DaysInMonth(y, m)

RECURSIVE DaysBeforeMonth(_, _)
DaysBeforeMonth(y, m) ==
    IF m = 1 THEN 0 ELSE DaysBeforeMonth(y, m - 1) + DaysInMonth(y, m - 1)

DaysBeforeYear(y) ==
    LET p == y - 1 IN p * 365 + (p \div 4) - (p \div 100) + (p \div 400)

\* date.toordinal(): 0001-01-01 is day 1
ToOrdinal(d) == DaysBeforeYear(d[1]) + DaysBeforeMonth(d[1], d[2]) + d[3]

MaxOrdinal == ToOrdinal(<<MAXYEAR, 12, 31>>)

Pad(n, w) ==
    [i \in 1..w |-> DigitChr((n \div (10 ^ (w - i))) % 10)]

\* isoformat with day and month written in each other's place
IsoFormat_DayMonthSwapped(d) ==
    LET y == Pad(d[1], 4)
        m == Pad(d[2], 2)
        dd == Pad(d[3], 2)
    IN  <<y[1], y[2], y[3], y[4], Ord("-"), dd[1], dd[2], Ord("-"), m[1], m[2]>>

\* date.isoformat()
IsoFormat(d) ==
    LET y == Pad(d[1], 4)
        m == Pad(d[2], 2)
        dd == Pad(d[3], 2)
    IN  <<y[1], y[2], y[3], y[4], Ord("-"), m[1], m[2], Ord("-"), dd[1], dd[2]>>

-----------------------------------------------------------------------------
(* parse_yyyy_mm_dd *)

\* strptime directive %Y: exactly four digits
FieldY(f) == Len(f) = 4 /\ AllDigits(f)

\* strptime directive %m: 1[0-2]|0[1-9]|[1-9]
FieldM(f) == Len(f) \in {1, 2} /\ AllDigits(f) /\ DigitsVal(f) \in 1..12

\* strptime directive %d: 3[0-1]|[1-2]\d|0[1-9]|[1-9]| [1-9]
FieldD(f) ==
    \/ Len(f) \in {1, 2} /\ AllDigits(f) /\ DigitsVal(f) \in 1..31
    \/ Len(f) = 2 /\ IsSpace(f[1]) /\ IsDigit(f[2]) /\ DigitVal(f[2]) \in 1..9

DayVal(f) == IF IsSpace(f[1]) THEN DigitVal(f[2]) ELSE DigitsVal(f)

\* datetime.strptime(s, fmt).date() for fmt = "%Y-%m-%d"; <<>> stands for ValueError
StrptimeYMD(s, sep) ==
    LET f == Split(s, sep) IN
    IF Len(f) = 3 /\ FieldY(f[1]) /\ FieldM(f[2]) /\ FieldD(f[3])
          /\ ValidDate(DigitsVal(f[1]), DigitsVal(f[2]), DayVal(f[3]))
    THEN <<(<<DigitsVal(f[1]), DigitsVal(f[2]), DayVal(f[3])>>)>>
    ELSE <<>>

\* datetime.strptime(s, fmt).date() for fmt = "%d<sep>%m<sep>%Y"
StrptimeDMY(s, sep) ==
    LET f == Split(s, sep) IN
    IF Len(f) = 3 /\ FieldD(f[1]) /\ FieldM(f[2]) /\ FieldY(f[3])
          /\ ValidDate(DigitsVal(f[3]), DigitsVal(f[2]), DayVal(f[1]))
    THEN <<(<<DigitsVal(f[3]), DigitsVal(f[2]), DayVal(f[1])>>)>>
    ELSE <<>>

\* returns <<>> (None) or <<date>>
parse_yyyy_mm_dd(s0) ==
    LET s == Strip(s0) IN
    IF s = <<>> THEN <<>>
    ELSE IF StrptimeYMD(s, Ord("-")) # <<>> THEN StrptimeYMD(s, Ord("-"))
    ELSE IF StrptimeDMY(s, Ord("/")) # <<>> THEN StrptimeDMY(s, Ord("/"))
    ELSE StrptimeDMY(s, Ord("-"))

-----------------------------------------------------------------------------
(* add_months and compute_permanence_end *)

\* int(ms): optional sign, then one or more digits; <<>> stands for ValueError
PyInt(ms) ==
    LET signed == ms # <<>> /\ ms[1] \in {Ord("+"), Ord("-")}
        digs == IF signed THEN Tail(ms) ELSE ms
    IN  IF digs # <<>> /\ AllDigits(digs)
        THEN <<(IF signed /\ ms[1] = Ord("-") THEN 0 - DigitsVal(digs) ELSE DigitsVal(digs))>>
        ELSE <<>>

\* add_months whose year carry ignores the start month
add_months_YearFromMonthsOnly(d, months) ==
    LET y == d[1] + (months \div 12)
        m == ((d[2] - 1 + months) % 12) + 1
        nextOK == IF m = 12 THEN ValidDate(y + 1, 1, 1) ELSE ValidDate(y, m + 1, 1)
        last_day == DaysInMonth(y, m)
        day == IF d[3] > last_day THEN last_day ELSE d[3]
    IN  IF nextOK /\ ValidDate(y, m, day)
        THEN [raised |-> FALSE, val |-> <<y, m, day>>]
        ELSE [raised |-> TRUE, val |-> <<>>]

\* add_months(d, months): [raised, val]; raised when a date(...) call raises
add_months(d, months) ==
    LET y == d[1] + ((d[2] - 1 + months) \div 12)
        m == ((d[2] - 1 + months) % 12) + 1
        nextOK == IF m = 12 THEN ValidDate(y + 1, 1, 1) ELSE ValidDate(y, m + 1, 1)
        last_day == DaysInMonth(y, m)
        day == IF d[3] > last_day THEN last_day ELSE d[3]
    IN  IF nextOK /\ ValidDate(y, m, day)
        THEN [raised |-> FALSE, val |-> <<y, m, day>>]
        ELSE [raised |-> TRUE, val |-> <<>>]

\* compute_permanence_end that computes whenever start and months are given
compute_permanence_end_IgnoresExplicitEnd(start_str, months_str, end_str) ==
    LET start == parse_yyyy_mm_dd(start_str)
        end0 == parse_yyyy_mm_dd(end_str)
        ms == Strip(months_str)
        months_int == IF ms # <<>> THEN PyInt(ms) ELSE <<>>
        computes == start # <<>> /\ months_int # <<>>
        am == IF computes THEN add_months(start[1], months_int[1])
              ELSE [raised |-> FALSE, val |-> <<>>]
        end == IF computes THEN <<am.val>> ELSE end0
    IN  IF am.raised
        THEN [raised |-> TRUE, start |-> NULL, months |-> <<>>, end |-> NULL]
        ELSE [raised |-> FALSE,
              start |-> IF start # <<>> THEN IsoFormat(start[1]) ELSE NULL,
              months |-> months_int,
              end |-> IF end # <<>> THEN IsoFormat(end[1]) ELSE NULL]

\* compute_permanence_end: [raised, start, months, end];
\* start and end are ISO texts or NULL, months is <<>> or <<n>>
compute_permanence_end(start_str, months_str, end_str) ==
    LET start == parse_yyyy_mm_dd(start_str)
        end0 == parse_yyyy_mm_dd(end_str)
        ms == Strip(months_str)
        months_int == IF ms # <<>> THEN PyInt(ms) ELSE <<>>
        computes == end0 = <<>> /\ start # <<>> /\ months_int # <<>>
        am == IF computes THEN add_months(start[1], months_int[1])
              ELSE [raised |-> FALSE, val |-> <<>>]
        end == IF computes THEN <<am.val>> ELSE end0
    IN  IF am.raised
        THEN [raised |-> TRUE, start |-> NULL, months |-> <<>>, end |-> NULL]
        ELSE [raised |-> FALSE,
              start |-> IF start # <<>> THEN IsoFormat(start[1]) ELSE NULL,
              months |-> months_int,
              end |-> IF end # <<>> THEN IsoFormat(end[1]) ELSE NULL]

NoOutcome == [raised |-> FALSE, start |-> NULL, months |-> <<>>, end |-> NULL]

-----------------------------------------------------------------------------
(* Inputs of the date resolver *)

MaxMonths == 14

RECURSIVE NatText(_)
NatText(n) == IF n < 10 THEN <<DigitChr(n)>> ELSE NatText(n \div 10) \o <<DigitChr(n % 10)>>

\* str(n)
IntText(n) == IF n < 0 THEN <<Ord("-")>> \o NatText(0 - n) ELSE NatText(n)

\* the text YYYY-MM-DD of a date
YMDText(d) ==
    LET y == Pad(d[1], 4)
        m == Pad(d[2], 2)
        dd == Pad(d[3], 2)
    IN  <<y[1], y[2], y[3], y[4], Ord("-"), m[1], m[2], Ord("-"), dd[1], dd[2]>>

\* the texts DD/MM/YYYY and DD-MM-YYYY of a date
DMYText(d, sep) ==
    LET y == Pad(d[1], 4)
        m == Pad(d[2], 2)
        dd == Pad(d[3], 2)
    IN  <<dd[1], dd[2], sep, m[1], m[2], sep, y[1], y[2], y[3], y[4]>>

ResolverDates ==
    { <<2024, 1, 31>>, <<2023, 1, 31>>, <<2023, 12, 31>>, <<2024, 3, 5>>,
      <<2024, 2, 29>>, <<1, 1, 15>>, <<9999, 11, 30>> }

GarbageTexts ==
    { NULL, <<>>, Txt(<<" ", " ">>), Txt(<<"a", "b", "c">>),
      Txt(<<"2", "0", "2", "3", "-", "0", "2", "-", "3", "0">>),
      Txt(<<"3", "1", "/", "0", "4", "/", "2", "0", "2", "4">>) }

StartTexts ==
    { YMDText(d) : d \in ResolverDates }
      \cup { DMYText(<<2024, 1, 31>>, Ord("/")), DMYText(<<2024, 3, 5>>, Ord("-")),
             Txt(<<" ">>) \o YMDText(<<2024, 1, 31>>) \o Txt(<<" ">>),
             Txt(<<"2", "0", "2", "4", "-", "3", "-", "5">>) }
      \cup GarbageTexts

MonthsTexts ==
    { IntText(n) : n \in (0 - MaxMonths)..MaxMonths }
      \cup { NULL, <<>>, Txt(<<"x">>), Txt(<<"+", "1">>), Txt(<<" ", "6", " ">>),
             Txt(<<"1", "2", "0", "0", "0", "0">>), Txt(<<"-", "1", "2", "0", "0", "0", "0">>),
             Txt(<<"-">>), Txt(<<"1", " ", "2">>) }

EndTexts ==
    { NULL, <<>>, Txt(<<"a", "b", "c">>),
      YMDText(<<2024, 6, 1>>), DMYText(<<2020, 1, 1>>, Ord("/")),
      DMYText(<<2024, 3, 15>>, Ord("-")), Txt(<<" ">>) \o YMDText(<<1, 2, 3>>) }

-----------------------------------------------------------------------------
(* The store and init_db *)

\* a request that is not a read leaves nothing read
NoResp == [op |-> "none", raised |-> FALSE, today |-> <<>>, window |-> <<>>, rows |-> <<>>]

\* SQL: x IS NULL OR x = ''
SqlEmpty(x) == x = NULL \/ x = <<>>

\* the first backfill UPDATE of init_db, on one row
BackfillNew(row) ==
    IF SqlEmpty(row.ped) /\ ~SqlEmpty(row.pe) THEN [row EXCEPT !.ped = row.pe] ELSE row

\* the second backfill UPDATE of init_db, on one row
BackfillOld(row) ==
    IF SqlEmpty(row.pe) /\ ~SqlEmpty(row.ped) THEN [row EXCEPT !.pe = row.ped] ELSE row

\* a backfill that only fills the new column
init_db_backfill_NewOnly(row) == BackfillNew(row)

\* both backfill UPDATEs, in the order init_db runs them
init_db_backfill(row) == BackfillOld(BackfillNew(row))

\* init_db(): the tables exist afterwards and the end columns are backfilled
InitDb ==
    /\ phase = "boot"
    /\ phase' = "serving"
    /\ clients' = [id \in DOMAIN clients |-> init_db_backfill(clients[id])]
    /\ UNCHANGED <<next_client_id, repairs, next_repair_id, sales, next_sale_id,
                   lines, next_line_id>>
    /\ resp' = NoResp
    /\ UNCHANGED rvars

-----------------------------------------------------------------------------
(* Request forms *)

MaxLegacy == 1        \* client rows found in the database file at startup
MaxClientId == 2      \* ids the clients table hands out
MaxInserts == 1       \* rows inserted into repairs, sales and mobile_lines together

LegacyTexts ==
    { NULL, <<>>, Txt(<<" ", " ">>), DMYText(<<2024, 2, 1>>, Ord("/")) }

LegacyRow(ped, pe) == [ps |-> NULL, pe |-> pe, psd |-> NULL, pm |-> <<>>, ped |-> ped]

\* the permanence fields of a submitted client form; ok: full_name and dni present
Form(ok, fsd, fs, fm, fed, fe) ==
    [ok |-> ok, permanence_start_date |-> fsd, permanence_start |-> fs,
     permanence_months |-> fm, permanence_end_date |-> fed, permanence_end |-> fe]

Forms ==
    { Form(TRUE, NULL, NULL, NULL, NULL, NULL),
      Form(FALSE, NULL, NULL, NULL, YMDText(<<2024, 1, 20>>), NULL),
      Form(TRUE, NULL, NULL, NULL, YMDText(<<2024, 1, 20>>), NULL),
      Form(TRUE, YMDText(<<2024, 1, 31>>), NULL, Txt(<<"1">>), <<>>, <<>>),
      Form(TRUE, <<>>, DMYText(<<2024, 1, 31>>, Ord("/")), Txt(<<"x">>), <<>>,
           DMYText(<<2024, 1, 5>>, Ord("/"))),
      Form(TRUE, YMDText(<<2024, 1, 31>>), NULL,
           Txt(<<"1", "2", "0", "0", "0", "0">>), NULL, NULL) }

\* compute_permanence_end on the form's fields, as new_client and update_client call it
FormOutcome(f) ==
    compute_permanence_end(PyOr(f.permanence_start_date, f.permanence_start),
                           f.permanence_months,
                           PyOr(f.permanence_end_date, f.permanence_end))

\* a row that loses the legacy end mirror
ClientRow_NoLegacyEnd(o) ==
    [ps |-> o.start, pe |-> NULL, psd |-> o.start, pm |-> o.months, ped |-> o.end]

\* the permanence columns written from (p_start, p_months, p_end)
ClientRow(o) ==
    [ps |-> o.start, pe |-> o.end, psd |-> o.start, pm |-> o.months, ped |-> o.end]

\* the five texts of one mobile line in a form: line_number, pin, puk, icc, account
LineAbsent == <<NULL, NULL, NULL, NULL, NULL>>
LineSpaces == <<Txt(<<" ">>), <<>>, NULL, NULL, NULL>>
LineNumber == <<Txt(<<" ", "6", " ">>), NULL, NULL, NULL, NULL>>
LineAccount == <<NULL, NULL, NULL, NULL, Txt(<<"a">>)>>

\* the line part of a form: line_count and the groups submitted for index 0, 1, ...
LineSubmissions ==
    { [line_count |-> NULL, entries |-> <<LineNumber>>],
      [line_count |-> <<>>, entries |-> <<>>],
      [line_count |-> Txt(<<"x">>), entries |-> <<LineNumber>>],
      [line_count |-> Txt(<<"-", "1">>), entries |-> <<LineAccount>>],
      [line_count |-> Txt(<<"1">>), entries |-> <<LineNumber, LineAccount>>],
      [line_count |-> Txt(<<"2">>), entries |-> <<LineSpaces, LineAccount>>],
      [line_count |-> Txt(<<"3">>), entries |-> <<LineAccount, LineAbsent, LineNumber>>],
      [line_count |-> Txt(<<" ", "3">>), entries |-> <<LineNumber, LineAccount>>] }

\* request.form.get(f"<field>_{i}") for the five fields
FormLine(lf, i) == IF (i + 1) \in DOMAIN lf THEN lf[i + 1] ELSE LineAbsent

StripLine(e) == <<Strip(e[1]), Strip(e[2]), Strip(e[3]), Strip(e[4]), Strip(e[5])>>

BlankLine(e) == \A k \in 1..5 : e[k] = <<>>

\* the stripped, non-blank entries with index i..n-1, in index order
RECURSIVE KeptLines(_, _, _)
KeptLines(lf, i, n) ==
    IF i >= n THEN <<>>
    ELSE (IF BlankLine(StripLine(FormLine(lf, i))) THEN <<>>
          ELSE <<StripLine(FormLine(lf, i))>>) \o KeptLines(lf, i + 1, n)

\* the rows INSERTed for client cid, with ids from first on
RECURSIVE NewLineRows(_, _, _)
NewLineRows(cid, kept, first) ==
    IF kept = <<>> THEN <<>>
    ELSE <<[id |-> first, client_id |-> cid, fields |-> Head(kept)]>>
             \o NewLineRows(cid, Tail(kept), first + 1)

\* int(request.form.get("line_count", "0") or "0"): <<>> stands for ValueError
LineCount(ls) == PyInt(Strip(PyOr(ls.line_count, Txt(<<"0">>))))

\* what the handlers compute from each form, tabulated once
FormOutcomes == [f \in Forms |-> FormOutcome(f)]
LineCounts == [ls \in LineSubmissions |-> LineCount(ls)]
KeptOf ==
    [ls \in LineSubmissions |->
        IF LineCount(ls) = <<>> THEN <<>> ELSE KeptLines(ls.entries, 0, LineCount(ls)[1])]

-----------------------------------------------------------------------------
(* Write handlers.  A request that raises before db.commit() leaves the    *)
(* store as it was: the connection is closed without a commit.             *)

\* the rows the three AUTOINCREMENT counters have handed out so far
Inserted == (next_repair_id - 1) + (next_sale_id - 1) + (next_line_id - 1)

\* new_client (POST)
NewClient(f) ==
    /\ phase = "serving"
    /\ next_client_id <= MaxClientId
    /\ LET o == FormOutcomes[f] IN
       IF o.raised \/ ~f.ok
       THEN UNCHANGED <<clients, next_client_id>>
       ELSE /\ clients' = [id \in DOMAIN clients \cup {next_client_id} |->
                              IF id = next_client_id THEN ClientRow(o) ELSE clients[id]]
            /\ next_client_id' = next_client_id + 1
    /\ UNCHANGED <<phase, repairs, next_repair_id, sales, next_sale_id, lines, next_line_id>>
    /\ resp' = NoResp
    /\ UNCHANGED rvars

\* update_client raises before db.commit(): compute_permanence_end raises, a
\* required field is missing, line_count is no integer, or a line is inserted
\* for a client id that does not exist (foreign key)
UpdateFails(cid, f, ls) ==
    \/ FormOutcomes[f].raised
    \/ ~f.ok
    \/ LineCounts[ls] = <<>>
    \/ (KeptOf[ls] # <<>> /\ cid \notin DOMAIN clients)

\* an update_client without the DELETE FROM mobile_lines: new lines are appended
update_client_KeepsOldLines(cid, f, ls) ==
    /\ phase = "serving"
    /\ LET o == FormOutcomes[f]
           kept == KeptOf[ls]
       IN  IF UpdateFails(cid, f, ls)
           THEN UNCHANGED <<next_line_id, lines, clients>>
           ELSE /\ next_line_id' = next_line_id + Len(kept)
                /\ lines' = lines \o NewLineRows(cid, kept, next_line_id)
                /\ clients' = [id \in DOMAIN clients |->
                                  IF id = cid THEN ClientRow(o) ELSE clients[id]]
    /\ UNCHANGED <<phase, next_client_id, repairs, next_repair_id, sales, next_sale_id>>
    /\ resp' = NoResp
    /\ UNCHANGED rvars

\* update_client(client_id) on the form (f, ls)
update_client(cid, f, ls) ==
    /\ phase = "serving"
    /\ LET o == FormOutcomes[f]
           kept == KeptOf[ls]
           NotOfClient(l) == l.client_id # cid
       IN  IF UpdateFails(cid, f, ls)
           THEN UNCHANGED <<next_line_id, lines, clients>>
           ELSE /\ next_line_id' = next_line_id + Len(kept)
                /\ lines' = SelectSeq(lines, NotOfClient) \o NewLineRows(cid, kept, next_line_id)
                /\ clients' = [id \in DOMAIN clients |->
                                  IF id = cid THEN ClientRow(o) ELSE clients[id]]
    /\ UNCHANGED <<phase, next_client_id, repairs, next_repair_id, sales, next_sale_id>>
    /\ resp' = NoResp
    /\ UNCHANGED rvars

\* update_client while the inserted rows stay within MaxInserts
UpdateClient(cid, f, ls) ==
    /\ Inserted + Len(KeptOf[ls]) <= MaxInserts
    /\ update_client(cid, f, ls)

\* add_repair: the INSERT fails on the foreign key when the client does not exist
add_repair(cid) ==
    /\ phase = "serving"
    /\ IF cid \in DOMAIN clients
       THEN /\ repairs' = repairs \cup {[id |-> next_repair_id, client_id |-> cid]}
            /\ next_repair_id' = next_repair_id + 1
       ELSE UNCHANGED <<repairs, next_repair_id>>
    /\ UNCHANGED <<phase, clients, next_client_id, sales, next_sale_id, lines, next_line_id>>
    /\ resp' = NoResp
    /\ UNCHANGED rvars

\* add_repair while the inserted rows stay within MaxInserts
AddRepair(cid) ==
    /\ Inserted < MaxInserts
    /\ add_repair(cid)

\* delete_repair
DeleteRepair(cid, rid) ==
    /\ phase = "serving"
    /\ repairs' = {r \in repairs : ~(r.id = rid /\ r.client_id = cid)}
    /\ UNCHANGED <<phase, clients, next_client_id, next_repair_id, sales, next_sale_id,
                   lines, next_line_id>>
    /\ resp' = NoResp
    /\ UNCHANGED rvars

\* add_sale
add_sale(cid) ==
    /\ phase = "serving"
    /\ IF cid \in DOMAIN clients
       THEN /\ sales' = sales \cup {[id |-> next_sale_id, client_id |-> cid]}
            /\ next_sale_id' = next_sale_id + 1
       ELSE UNCHANGED <<sales, next_sale_id>>
    /\ UNCHANGED <<phase, clients, next_client_id, repairs, next_repair_id, lines, next_line_id>>
    /\ resp' = NoResp
    /\ UNCHANGED rvars

\* add_sale while the inserted rows stay within MaxInserts
AddSale(cid) ==
    /\ Inserted < MaxInserts
    /\ add_sale(cid)

\* delete_sale
DeleteSale(cid, sid) ==
    /\ phase = "serving"
    /\ sales' = {r \in sales : ~(r.id = sid /\ r.client_id = cid)}
    /\ UNCHANGED <<phase, clients, next_client_id, repairs, next_repair_id, next_sale_id,
                   lines, next_line_id>>
    /\ resp' = NoResp
    /\ UNCHANGED rvars

\* a delete_client without ON DELETE CASCADE: only the client row goes
DeleteClient_NoCascade(cid) ==
    /\ phase = "serving"
    /\ clients' = [id \in DOMAIN clients \ {cid} |-> clients[id]]
    /\ UNCHANGED <<lines, repairs, sales>>
    /\ UNCHANGED <<phase, next_client_id, next_repair_id, next_sale_id, next_line_id>>
    /\ resp' = NoResp
    /\ UNCHANGED rvars

\* delete_client: ON DELETE CASCADE removes the client's lines, repairs and sales
DeleteClient(cid) ==
    /\ phase = "serving"
    /\ LET NotOfClient(l) == l.client_id # cid IN
       /\ clients' = [id \in DOMAIN clients \ {cid} |-> clients[id]]
       /\ lines' = SelectSeq(lines, NotOfClient)
       /\ repairs' = {r \in repairs : r.client_id # cid}
       /\ sales' = {r \in sales : r.client_id # cid}
    /\ UNCHANGED <<phase, next_client_id, next_repair_id, next_sale_id, next_line_id>>
    /\ resp' = NoResp
    /\ UNCHANGED rvars

ClientIds == 1..MaxClientId

-----------------------------------------------------------------------------
(* Readers of the stored end date *)

\* get_end_date_from_client_row: an ISO text or NULL (None)
get_end_date_from_client_row(c) ==
    LET end_iso == IF Falsy(c.ped) THEN c.pe ELSE c.ped
        t == Strip(end_iso)
    IN  IF t = <<>> THEN NULL ELSE t

\* SQL: COALESCE(NULLIF(permanence_end_date, ''), permanence_end)
SqlEndDate(c) == IF SqlEmpty(c.ped) THEN c.pe ELSE c.ped

\* SQL: the WHERE clause of calendar_view and api_permanencias
SqlHasEnd(c) == ~SqlEmpty(c.ped) \/ ~SqlEmpty(c.pe)

\* days_until with date.today() = today: <<>> (None) or <<days>>
days_until(end_iso, today) ==
    LET d == parse_yyyy_mm_dd(end_iso) IN
    IF d = <<>> THEN <<>> ELSE <<ToOrdinal(d[1]) - ToOrdinal(today)>>

\* SQL text comparison (BINARY collation): a <= b
RECURSIVE TextLeq(_, _)
TextLeq(a, b) ==
    IF a = <<>> THEN TRUE
    ELSE IF b = <<>> THEN FALSE
    ELSE IF Head(a) # Head(b) THEN Head(a) < Head(b)
    ELSE TextLeq(Tail(a), Tail(b))

RECURSIVE Perms(_)
Perms(S) ==
    IF S = {} THEN {<<>>}
    ELSE UNION { { <<x>> \o q : q \in Perms(S \ {x}) } : x \in S }

\* the ids in descending order (ORDER BY id DESC)
RECURSIVE IdsDesc(_)
IdsDesc(S) ==
    IF S = {} THEN <<>>
    ELSE LET mx == CHOOSE x \in S : \A y \in S : y <= x
         IN  <<mx>> \o IdsDesc(S \ {mx})

\* the orders in which SELECT ... WHERE ... ORDER BY end_date ASC may return
\* the ids: ascending end_date text; rows with equal text in either order
SqlOrders(cl) ==
    { q \in Perms({id \in DOMAIN cl : SqlHasEnd(cl[id])}) :
        \A i \in 1..(Len(q) - 1) : TextLeq(SqlEndDate(cl[q[i]]), SqlEndDate(cl[q[i + 1]])) }

Todays == { <<2024, 1, 10>>, <<2024, 1, 20>> }

DefaultDays == 365

DaysTexts ==
    { NULL, Txt(<<"1", "0">>), Txt(<<"a", "b", "c">>), Txt(<<"-", "5">>),
      Txt(<<"9", "9", "9", "9", "9", "9", "9">>) }

\* int(days) of calendar_view, 365 on ValueError
DaysInt(days) ==
    LET t == PyInt(Strip(IF days = NULL THEN IntText(DefaultDays) ELSE days))
    IN  IF t = <<>> THEN DefaultDays ELSE t[1]

\* the loop of calendar_view over the selected rows, without the lower bound
RECURSIVE Upcoming_NoLowerBound(_, _, _, _)
Upcoming_NoLowerBound(cl, q, today, limit) ==
    IF q = <<>> THEN <<>>
    ELSE LET id == Head(q)
             end_d == parse_yyyy_mm_dd(SqlEndDate(cl[id]))
             in == end_d # <<>> /\ ToOrdinal(end_d[1]) <= limit
         IN  (IF in THEN <<[id |-> id, end |-> SqlEndDate(cl[id]),
                            days |-> <<ToOrdinal(end_d[1]) - ToOrdinal(today)>>]>>
              ELSE <<>>) \o Upcoming_NoLowerBound(cl, Tail(q), today, limit)

\* the loop of calendar_view over the selected rows q; limit is an ordinal
RECURSIVE Upcoming(_, _, _, _)
Upcoming(cl, q, today, limit) ==
    IF q = <<>> THEN <<>>
    ELSE LET id == Head(q)
             end_d == parse_yyyy_mm_dd(SqlEndDate(cl[id]))
             in == /\ end_d # <<>>
                   /\ ToOrdinal(today) <= ToOrdinal(end_d[1])
                   /\ ToOrdinal(end_d[1]) <= limit
         IN  (IF in THEN <<[id |-> id, end |-> SqlEndDate(cl[id]),
                            days |-> <<ToOrdinal(end_d[1]) - ToOrdinal(today)>>]>>
              ELSE <<>>) \o Upcoming(cl, Tail(q), today, limit)

RECURSIVE ApiRows(_, _, _)
ApiRows(cl, q, today) ==
    IF q = <<>> THEN <<>>
    ELSE LET end_date == SqlEndDate(cl[Head(q)]) IN
         <<[id |-> Head(q), end |-> end_date,
            days |-> IF Falsy(end_date) THEN <<>> ELSE days_until(end_date, today)]>>
           \o ApiRows(cl, Tail(q), today)

RECURSIVE ListRows(_, _, _)
ListRows(cl, q, today) ==
    IF q = <<>> THEN <<>>
    ELSE LET end_iso == get_end_date_from_client_row(cl[Head(q)]) IN
         <<[id |-> Head(q), end |-> end_iso,
            days |-> IF Falsy(end_iso) THEN <<>> ELSE days_until(end_iso, today)]>>
           \o ListRows(cl, Tail(q), today)

\* clients(): the listing with its days_left_map
ClientsList(today) ==
    /\ phase = "serving"
    /\ resp' = [op |-> "clients", raised |-> FALSE, today |-> today, window |-> <<>>,
                rows |-> ListRows(clients, IdsDesc(DOMAIN clients), today)]
    /\ UNCHANGED <<svars, rvars>>

\* view_client(client_id)
ViewClient(cid, today) ==
    /\ phase = "serving"
    /\ resp' = [op |-> "view_client", raised |-> FALSE, today |-> today, window |-> <<>>,
                rows |-> IF cid \in DOMAIN clients
                         THEN ListRows(clients, <<cid>>, today) ELSE <<>>]
    /\ UNCHANGED <<svars, rvars>>

\* calendar_view(): today + timedelta(days=days_int) raises OverflowError
\* when it leaves the range of date
CalendarView(today, days) ==
    /\ phase = "serving"
    /\ \E q \in SqlOrders(clients) :
         LET days_int == DaysInt(days)
             limit == ToOrdinal(today) + days_int
         IN  resp' = IF limit < 1 \/ limit > MaxOrdinal
                     THEN [op |-> "calendar", raised |-> TRUE, today |-> today,
                           window |-> <<days_int>>, rows |-> <<>>]
                     ELSE [op |-> "calendar", raised |-> FALSE, today |-> today,
                           window |-> <<days_int>>,
                           rows |-> Upcoming(clients, q, today, limit)]
    /\ UNCHANGED <<svars, rvars>>

\* api_permanencias()
ApiPermanencias(today) ==
    /\ phase = "serving"
    /\ \E q \in SqlOrders(clients) :
         resp' = [op |-> "api", raised |-> FALSE, today |-> today, window |-> <<>>,
                  rows |-> ApiRows(clients, q, today)]
    /\ UNCHANGED <<svars, rvars>>

-----------------------------------------------------------------------------
(* Specifications *)

LegacyRows == { LegacyRow(a, b) : a \in LegacyTexts, b \in LegacyTexts }

\* the database file as init_db finds it
StoreInit ==
    /\ phase = "boot"
    /\ \E k \in 0..MaxLegacy :
          /\ clients \in [1..k -> LegacyRows]
          /\ next_client_id = k + 1
    /\ repairs = {} /\ next_repair_id = 1
    /\ sales = {} /\ next_sale_id = 1
    /\ lines = <<>> /\ next_line_id = 1

StoreIdle ==
    /\ phase = "serving"
    /\ clients = <<>> /\ next_client_id = 1
    /\ repairs = {} /\ next_repair_id = 1
    /\ sales = {} /\ next_sale_id = 1
    /\ lines = <<>> /\ next_line_id = 1

RIdle ==
    /\ r_pc = "idle"
    /\ r_start = NULL /\ r_months = NULL /\ r_end = NULL
    /\ r_out = NoOutcome /\ r_out2 = NoOutcome

Init == StoreInit /\ RIdle /\ resp = NoResp

Next ==
    \/ InitDb
    \/ \E f \in Forms : NewClient(f)
    \/ \E cid \in ClientIds, f \in Forms, ls \in LineSubmissions : UpdateClient(cid, f, ls)
    \/ \E cid \in ClientIds : AddRepair(cid)
    \/ \E cid \in ClientIds, rid \in 1..MaxInserts : DeleteRepair(cid, rid)
    \/ \E cid \in ClientIds : AddSale(cid)
    \/ \E cid \in ClientIds, sid \in 1..MaxInserts : DeleteSale(cid, sid)
    \/ \E cid \in ClientIds : DeleteClient(cid)

Spec == Init /\ [][Next]_vars

VNext ==
    \/ InitDb
    \/ \E f \in Forms : NewClient(f)
    \/ \E t \in Todays : ClientsList(t)
    \/ \E cid \in ClientIds, t \in Todays : ViewClient(cid, t)
    \/ \E t \in Todays, d \in DaysTexts : CalendarView(t, d)
    \/ \E t \in Todays : ApiPermanencias(t)

SpecViews == Init /\ [][VNext]_vars

\* rows inserted into repairs, sales and mobile_lines together, where the
\* dependent rows are what is observed
MaxRows == 3

\* the forms without a permanence period: accepted with and without an explicit
\* end, rejected for a missing required field, and raising in the resolver
RowForms ==
    { f \in Forms : f.permanence_start_date = NULL /\ f.permanence_start = NULL }
      \cup { f \in Forms : FormOutcomes[f].raised }

\* a new database file: init_db creates the empty tables
RowsInit ==
    /\ phase = "boot"
    /\ clients = <<>> /\ next_client_id = 1
    /\ repairs = {} /\ next_repair_id = 1
    /\ sales = {} /\ next_sale_id = 1
    /\ lines = <<>> /\ next_line_id = 1
    /\ RIdle /\ resp = NoResp

\* update_client while the inserted rows stay within MaxRows
UpdateClientRows(cid, f, ls) ==
    /\ Inserted + Len(KeptOf[ls]) <= MaxRows
    /\ update_client(cid, f, ls)

\* add_repair while the inserted rows stay within MaxRows
AddRepairRow(cid) ==
    /\ Inserted < MaxRows
    /\ add_repair(cid)

\* add_sale while the inserted rows stay within MaxRows
AddSaleRow(cid) ==
    /\ Inserted < MaxRows
    /\ add_sale(cid)

RowsNext ==
    \/ InitDb
    \/ \E f \in RowForms : NewClient(f)
    \/ \E cid \in ClientIds, f \in RowForms, ls \in LineSubmissions : UpdateClientRows(cid, f, ls)
    \/ \E cid \in ClientIds : AddRepairRow(cid)
    \/ \E cid \in ClientIds, rid \in 1..MaxRows : DeleteRepair(cid, rid)
    \/ \E cid \in ClientIds : AddSaleRow(cid)
    \/ \E cid \in ClientIds, sid \in 1..MaxRows : DeleteSale(cid, sid)
    \/ \E cid \in ClientIds : DeleteClient(cid)

SpecRows == RowsInit /\ [][RowsNext]_vars

\* the requests that touch mobile lines, on their own
LinesNext ==
    \/ InitDb
    \/ \E f \in RowForms : NewClient(f)
    \/ \E cid \in ClientIds, f \in RowForms, ls \in LineSubmissions : UpdateClientRows(cid, f, ls)
    \/ \E cid \in ClientIds : DeleteClient(cid)

SpecLines == RowsInit /\ [][LinesNext]_vars

-----------------------------------------------------------------------------
(* The resolver applied to its inputs *)

RInit ==
    /\ StoreIdle /\ resp = NoResp
    /\ r_pc = "call"
    /\ r_start \in StartTexts
    /\ r_months \in MonthsTexts
    /\ r_end \in EndTexts
    /\ r_out = NoOutcome
    /\ r_out2 = NoOutcome

\* compute_permanence_end(start_str, months_str, end_str)
Resolve ==
    /\ r_pc = "call"
    /\ r_out' = compute_permanence_end(r_start, r_months, r_end)
    /\ r_pc' = "returned"
    /\ UNCHANGED <<r_start, r_months, r_end, r_out2>>
    /\ UNCHANGED <<svars, resp>>

\* a second call with the first call's end as end_str
FeedBack ==
    /\ r_pc = "returned"
    /\ ~r_out.raised
    /\ r_out2' = compute_permanence_end(r_start, r_months, r_out.end)
    /\ r_pc' = "fedback"
    /\ UNCHANGED <<r_start, r_months, r_end, r_out>>
    /\ UNCHANGED <<svars, resp>>

RNext == Resolve \/ FeedBack

SpecResolver == RInit /\ [][RNext]_vars

-----------------------------------------------------------------------------
(* Properties of the date resolver, checked under SpecResolver *)

RStart == parse_yyyy_mm_dd(r_start)
REnd == parse_yyyy_mm_dd(r_end)
RMonths == IF Strip(r_months) # <<>> THEN PyInt(Strip(r_months)) ELSE <<>>

\* the date n calendar months after d: same day-of-month, or the target
\* month's last day when the target month is shorter
MonthShift(d, n) ==
    LET idx == d[1] * 12 + (d[2] - 1) + n
        ty == idx \div 12
        tm == (idx % 12) + 1
        len == DaysInMonth(ty, tm)
    IN  <<ty, tm, IF d[3] > len THEN len ELSE d[3]>>

Representable(d) == ValidDate(d[1], d[2], d[3])

\* C1: whenever the explicit end text parses to a date, the call returns and
\* the returned end is that same calendar date, whatever start and months are.
C1_ExplicitEndWins ==
    (r_pc # "call" /\ REnd # <<>>)
        => (~r_out.raised /\ r_out.end = YMDText(REnd[1]))

\* an explicit end next to a start and a month count that give another date
C1_Witness ==
    /\ r_pc = "returned" /\ REnd # <<>> /\ RStart # <<>> /\ RMonths # <<>>
    /\ Representable(MonthShift(RStart[1], RMonths[1]))
    /\ MonthShift(RStart[1], RMonths[1]) # REnd[1]
    /\ r_out.end = YMDText(REnd[1])

\* C2: for a valid start and a positive month count with no explicit end, the
\* returned end is the date in the calendar month `months` after start's,
\* with start's day-of-month clamped to that month's length (stated for every
\* target date that exists in the calendar range).
C2_EndIsClampedMonthShift ==
    (r_pc # "call" /\ REnd = <<>> /\ RStart # <<>> /\ RMonths # <<>>
        /\ RMonths[1] > 0 /\ Representable(MonthShift(RStart[1], RMonths[1])))
        => (~r_out.raised /\ r_out.end = YMDText(MonthShift(RStart[1], RMonths[1])))

\* C3: compute_permanence_end returns a triple for every triple of input texts.
C3_NeverRaises == r_pc # "call" => ~r_out.raised

\* C4: feeding the end returned for (start, months, absent) back as the
\* explicit end returns the same triple as the first call.
C4_FeedBackIdempotent ==
    (r_pc = "fedback" /\ Falsy(r_end)) => r_out2 = r_out

\* the first call computed an end and the second call was given it
C4_Witness ==
    /\ r_pc = "fedback" /\ r_end = NULL /\ r_out.end # NULL
    /\ RStart # <<>> /\ RMonths # <<>> /\ r_out2.end = r_out.end

\* C9 as claimed: zero or negative months with a start and no explicit end
\* give an absent end.
C9_NonPositiveMonthsGiveAbsentEnd ==
    (r_pc # "call" /\ ~r_out.raised /\ REnd = <<>> /\ RStart # <<>>
        /\ RMonths # <<>> /\ RMonths[1] <= 0)
        => r_out.end = NULL

\* C9 as amended: there is no guard on the sign of months; a returned end is
\* never absent, it is start moved |months| calendar months back with the day
\* clamped, hence start itself for 0 and a date before start otherwise.
C9_NonPositiveMonthsShiftBack ==
    (r_pc # "call" /\ ~r_out.raised /\ REnd = <<>> /\ RStart # <<>>
        /\ RMonths # <<>> /\ RMonths[1] <= 0)
        => /\ r_out.end # NULL
           /\ r_out.end = YMDText(MonthShift(RStart[1], RMonths[1]))
           /\ (RMonths[1] = 0 => r_out.end = r_out.start)
           /\ (RMonths[1] < 0 =>
                 ToOrdinal(MonthShift(RStart[1], RMonths[1])) < ToOrdinal(RStart[1]))

\* a negative month count that crosses a year boundary and needs the clamp
C9_Witness ==
    /\ r_pc = "returned" /\ ~r_out.raised /\ REnd = <<>> /\ RStart # <<>>
    /\ RMonths # <<>> /\ RMonths[1] < 0
    /\ r_out.end # NULL
    /\ MonthShift(RStart[1], RMonths[1])[1] < RStart[1][1]
    /\ MonthShift(RStart[1], RMonths[1])[3] < RStart[1][3]

-----------------------------------------------------------------------------
(* Properties of the readers, checked under SpecViews *)

Blank(x) == x = NULL \/ Strip(x) = <<>>

\* the effective end date: the current-schema field unless it is blank or
\* absent, otherwise the legacy field; NULL when both are blank
EffectiveEnd(c) ==
    IF ~Blank(c.ped) THEN c.ped ELSE IF ~Blank(c.pe) THEN c.pe ELSE NULL

RowIds(rows) == { rows[i].id : i \in 1..Len(rows) }

\* C5: every reader reports, for every row, the effective end date: the
\* listing and the detail view (get_end_date_from_client_row) and the API
\* (the COALESCE expression) give the same end for the same client row.
C5_ReadersGiveEffectiveEnd ==
    /\ resp.op \in {"clients", "view_client", "api"} =>
          \A i \in 1..Len(resp.rows) :
             resp.rows[i].end = EffectiveEnd(clients[resp.rows[i].id])
    /\ resp.op = "api" =>
          RowIds(resp.rows) = { id \in DOMAIN clients : EffectiveEnd(clients[id]) # NULL }

\* the dates of the calendar the claim is about
InWindow(c, today, window) ==
    LET d == parse_yyyy_mm_dd(SqlEndDate(c)) IN
    /\ d # <<>>
    /\ ToOrdinal(today) <= ToOrdinal(d[1])
    /\ ToOrdinal(d[1]) <= ToOrdinal(today) + window

C7_AscendingByCalendarDate ==
    (resp.op \in {"calendar", "api"} /\ ~resp.raised) =>
        \A i, j \in 1..Len(resp.rows) :
           LET di == parse_yyyy_mm_dd(resp.rows[i].end)
               dj == parse_yyyy_mm_dd(resp.rows[j].end)
           IN  (i < j /\ di # <<>> /\ dj # <<>>) =>
                  \/ ToOrdinal(di[1]) < ToOrdinal(dj[1])
                  \/ (ToOrdinal(di[1]) = ToOrdinal(dj[1]) /\ resp.rows[i].id < resp.rows[j].id)

-----------------------------------------------------------------------------
(* Properties of the store, checked under Spec *)

\* C8: once init_db has run, no client row has exactly one of permanence_end
\* and permanence_end_date empty or NULL.
C8_EndColumnsPaired ==
    phase = "serving" =>
        \A id \in DOMAIN clients : SqlEmpty(clients[id].ped) <=> SqlEmpty(clients[id].pe)

\* a row of the old database file with both columns filled next to a row
\* written by new_client or update_client, after a repair was added
C8_Witness ==
    /\ phase = "serving"
    /\ \E id \in DOMAIN clients :
          /\ clients[id].psd = NULL
          /\ clients[id].ped = DMYText(<<2024, 2, 1>>, Ord("/"))
          /\ clients[id].pe = clients[id].ped
    /\ \E id \in DOMAIN clients :
          clients[id].psd # NULL /\ clients[id].ped # NULL /\ clients[id].pe = clients[id].ped
    /\ repairs # {}

EndCols(c) == <<c.ped, c.pe>>

\* the step is a committed update_client of id that writes the resolver's end
WritesResolverEnd(id) ==
    \E f \in Forms, ls \in LineSubmissions :
       /\ UpdateClient(id, f, ls)
       /\ ~UpdateFails(id, f, ls)
       /\ clients'[id].ped = FormOutcomes[f].end
       /\ clients'[id].pe = FormOutcomes[f].end

\* the step is a committed new_client that creates id with the resolver's end
CreatesWithResolverEnd(id) ==
    \E f \in Forms :
       /\ NewClient(f)
       /\ clients'[id].ped = FormOutcomes[f].end
       /\ clients'[id].pe = FormOutcomes[f].end

\* the step is init_db filling an empty end column of id from its partner
BackfillsEnd(id) ==
    LET a == clients[id]
        b == clients'[id]
    IN  /\ InitDb
        /\ b.ped # a.ped => (SqlEmpty(a.ped) /\ ~SqlEmpty(a.pe) /\ b.ped = a.pe)
        /\ b.pe # a.pe => (SqlEmpty(a.pe) /\ ~SqlEmpty(a.ped) /\ b.pe = a.ped)
        /\ SqlEndDate(b) = SqlEndDate(a)

\* C10 as claimed: a stored end date is created by new_client and changed by
\* update_client only, both writing the end compute_permanence_end returned;
\* every other operation, init_db included, leaves it as it was.
C10_OnlyResolverWritesEnd ==
    [][ /\ \A id \in (DOMAIN clients) \cap (DOMAIN clients') :
              EndCols(clients'[id]) # EndCols(clients[id]) => WritesResolverEnd(id)
        /\ \A id \in (DOMAIN clients') \ (DOMAIN clients) : CreatesWithResolverEnd(id) ]_vars

\* C10 as amended: the same, except that init_db at startup fills an empty or
\* NULL end column from its non-empty partner (the effective end date stays).
C10_ResolverOrBackfillWritesEnd ==
    [][ /\ \A id \in (DOMAIN clients) \cap (DOMAIN clients') :
              EndCols(clients'[id]) # EndCols(clients[id]) =>
                  (WritesResolverEnd(id) \/ BackfillsEnd(id))
        /\ \A id \in (DOMAIN clients') \ (DOMAIN clients) : CreatesWithResolverEnd(id) ]_vars

\* an old row whose end an edit has overwritten with a computed end, and a
\* created row, with a sale recorded
C10_Witness ==
    /\ phase = "serving"
    /\ clients # <<>>
    /\ 1 \in DOMAIN clients /\ 2 \in DOMAIN clients
    /\ clients[1].ped = YMDText(<<2024, 2, 29>>) /\ clients[1].pe = clients[1].ped
    /\ clients[2].ped = NULL /\ clients[2].pe = NULL
    /\ sales # {}

-----------------------------------------------------------------------------
(* Properties of the dependent rows, checked under SpecRows and SpecLines *)

\* the rows held in a sequence
RowSet(q) == { q[i] : i \in DOMAIN q }

\* the rows of S that reference client cid
OfClient(S, cid) == { r \in S : r.client_id = cid }

\* every mobile line, repair and sale references a client that exists
ReferencesExist ==
    /\ \A i \in DOMAIN lines : lines[i].client_id \in DOMAIN clients
    /\ \A r \in repairs : r.client_id \in DOMAIN clients
    /\ \A r \in sales : r.client_id \in DOMAIN clients

\* a delete_client step removes the client and all its rows, and leaves every
\* other client and its rows as they were
DeleteRemovesOwnRowsOnly ==
    \A cid \in ClientIds :
       DeleteClient(cid) =>
          /\ cid \notin DOMAIN clients'
          /\ OfClient(RowSet(lines'), cid) = {}
          /\ OfClient(repairs', cid) = {}
          /\ OfClient(sales', cid) = {}
          /\ \A o \in ClientIds \ {cid} :
                /\ o \in DOMAIN clients => (o \in DOMAIN clients' /\ clients'[o] = clients[o])
                /\ OfClient(RowSet(lines'), o) = OfClient(RowSet(lines), o)
                /\ OfClient(repairs', o) = OfClient(repairs, o)
                /\ OfClient(sales', o) = OfClient(sales, o)

\* add_repair, add_sale and update_client for an id without a client add no row
MissingClientGetsNoRow ==
    \A cid \in ClientIds :
       (/\ cid \notin DOMAIN clients
        /\ \/ add_repair(cid)
           \/ add_sale(cid)
           \/ \E f \in Forms, ls \in LineSubmissions : update_client(cid, f, ls))
       => /\ RowSet(lines') \subseteq RowSet(lines)
          /\ repairs' \subseteq repairs
          /\ sales' \subseteq sales

\* C11: in every reachable store state every mobile line, repair and sale
\* references an existing client; delete_client removes all of that client's
\* lines, repairs and sales and nothing of any other client; add_repair,
\* add_sale and update_client addressed to a non-existent client id add no row.
C11_ReferentialIntegrity ==
    /\ []ReferencesExist
    /\ [][vars' # vars => (DeleteRemovesOwnRowsOnly /\ MissingClientGetsNoRow)]_vars

\* client 1 has been deleted after rows were inserted for it, and client 2
\* still holds a line, a repair or a sale of its own
C11_Witness ==
    /\ phase = "serving"
    /\ 1 \notin DOMAIN clients /\ 2 \in DOMAIN clients
    /\ OfClient(RowSet(lines) \cup repairs \cup sales, 2) # {}
    /\ Inserted > Cardinality(RowSet(lines)) + Cardinality(repairs) + Cardinality(sales)
    /\ ReferencesExist

\* the mobile lines of client cid, in the order of the table
ClientLines(q, cid) ==
    LET OfCid(l) == l.client_id = cid IN SelectSeq(q, OfCid)

\* field k of the submitted entry with index i, trimmed; an absent field is ""
Trimmed(ls, i, k) ==
    LET raw == IF (i + 1) \in DOMAIN ls.entries THEN ls.entries[i + 1][k] ELSE NULL
    IN  IF raw = NULL THEN <<>> ELSE RStrip(LStrip(raw))

\* the indices below line_count whose entry has a non-blank field
NonBlankIdx(ls) ==
    { i \in 0..(LineCounts[ls][1] - 1) : \E k \in 1..5 : Trimmed(ls, i, k) # <<>> }

\* after the step the lines of cid are the non-blank entries of ls in index
\* order, all of them rows inserted by this step
ReplacesLines(cid, ls) ==
    LET I == NonBlankIdx(ls)
        new == ClientLines(lines', cid)
    IN  /\ Len(new) = Cardinality(I)
        /\ \A j \in 1..Len(new) :
              LET i == CHOOSE x \in I : Cardinality({ y \in I : y < x }) = j - 1 IN
              /\ \A k \in 1..5 : new[j].fields[k] = Trimmed(ls, i, k)
              /\ new[j].id >= next_line_id
              /\ \A h \in 1..(j - 1) : new[h].id < new[j].id

\* an update_client step either raised and left the whole store as it was, or
\* committed and replaced the lines of cid by the non-blank entries of ls
UpdateReplacesOrLeaves ==
    \A cid \in ClientIds, f \in Forms, ls \in LineSubmissions :
       update_client(cid, f, ls) =>
          IF LineCounts[ls] = <<>> \/ UpdateFails(cid, f, ls)
          THEN UNCHANGED svars
          ELSE ReplacesLines(cid, ls)

\* C12: after a successful update_client the client's lines are exactly the
\* submitted entries with index 0..line_count-1 that have a non-blank field
\* after trimming, in index order, and no earlier line survives; an update
\* that fails part-way leaves the store as it was before the request.
\* (A step that changes nothing satisfies [A]_vars whatever A is.)
C12_LinesReplacedOrNothingChanged ==
    [][vars' # vars => UpdateReplacesOrLeaves]_vars

\* no client was ever deleted, an earlier line is gone, and a client holds the
\* two non-blank entries (indices 0 and 2) of a three-entry submission
C12_Witness ==
    /\ phase = "serving"
    /\ DOMAIN clients = 1..(next_client_id - 1)
    /\ next_line_id - 1 > Len(lines)
    /\ \E cid \in DOMAIN clients :
          LET mine == ClientLines(lines, cid) IN
          /\ Len(mine) = 2
          /\ mine[1].fields = <<<<>>, <<>>, <<>>, <<>>, Txt(<<"a">>)>>
          /\ mine[2].fields = <<Txt(<<"6">>), <<>>, <<>>, <<>>, <<>>>>

====
